---- MODULE Spec2Model ----
(***************************************************************************)
(* Model of autogpt/sdk/agent.py: the Agent class that drives tasks, steps *)
(* and artifacts over a record store (AgentDB) and an artifact workspace.  *)
(*                                                                         *)
(* Every coroutine of Agent runs without interruption between two awaits,  *)
(* so one action of the model is one awaited store call together with the  *)
(* synchronous code that follows it up to the next await or the return.    *)
(* Strings that the code inspects (paths, file names) are sequences of     *)
(* one-character strings.                                                  *)
(***************************************************************************)
EXTENDS Integers, Sequences, FiniteSets, TLC

\* ---- bounds of the model ------------------------------------------------
MaxTasks == 1
MaxSteps == 3
MaxArtifacts == 2
MaxBlobs == 2
MaxUploads == 1
MaxLongSteps == 102

\* ---- program constants --------------------------------------------------
\* per_page of the continuation scan: self.db.list_steps(task_id, page=1, per_page=100)
PerPage == 100

\* the requests in flight: a request takes the lowest free slot, so that the
\* interleavings of two concurrent requests are explored once, not once per naming
Procs == {1, 2}
LongProcs == {1}

\* the task identifiers the artifact specification runs over
UploadTasks == {1, 2}

\* the reserved continuation sentinel and the fixed markers of the code
Sentinel == "y"
NoMoreSteps == "No more steps to run."
DoneSomeWork == "Done some work"
None == "None"
EmptyDict == "{}"

\* ---- values of the schema ----------------------------------------------
\* Status is an enumeration; the code also assigns the plain string.
Enum(v) == [repr |-> "Status", value |-> v]
Str(v) == [repr |-> "str", value |-> v]

\* s.status != "completed" / == "completed": comparison by value
StatusIs(status, v) == status.value = v

\* isinstance(step.status, Status)
IsStatusEnum(status) == status.repr = "Status"

\* StepRequestBody(input, additional_input)
StepRequestBody(i, ai) == [type |-> "StepRequestBody", input |-> i, additional_input |-> ai]

\* a plain str passed as the input of a step
StrInput(s) == [type |-> "str", input |-> s, additional_input |-> None]

NormalInputs == {"a"}
AdditionalInputs == {EmptyDict}
StepRequests == {StepRequestBody(i, ai) : i \in NormalInputs \cup {Sentinel}, ai \in AdditionalInputs}
TaskRequests == {[input |-> "goal", additional_input |-> EmptyDict]}

\* artifact descriptors {file_name, uri} produced by utils.run
Desc1 == [file_name |-> <<"o">>, uri |-> "file://o"]
Desc2 == [file_name |-> <<"l">>, uri |-> "file://l"]
RunOutputs == {<<>>, <<Desc2, Desc1>>}

\* uploads: file.filename (empty when the upload declares none), relative_path, bytes
FileNames == {<<>>, <<"c">>}
RelativePaths == {<<"/", "a", "/">>, <<"/", "a", "/", "c">>}
Bytes == {"x", "z"}
\* the names str(uuid4()) yields, in the order of the calls
UuidNames == << <<"u", "1">> >>

VARIABLES
    tasks,      \* AgentDB: Task records, in creation order
    steps,      \* AgentDB: Step records, in creation order
    artifacts,  \* AgentDB: Artifact records, in creation order
    workspace,  \* Workspace: (task_id, path) -> bytes
    uuids,      \* number of uuid4() names generated so far
    pc,         \* per request: the await the coroutine is suspended at
    loc,        \* per request: the coroutine's local variables
    ret         \* what the latest action returned or raised to its caller, if it ended a call

vars == <<tasks, steps, artifacts, workspace, uuids, pc, loc, ret>>
store == <<tasks, steps, artifacts>>

\* ---- AgentDB ------------------------------------------------------------
TaskIds == 1..Len(tasks)

\* db.create_task(input, additional_input)
db_create_task(req) ==
    [task_id |-> Len(tasks) + 1, input |-> req.input, additional_input |-> req.additional_input]

\* the record db.create_step makes: a fresh identifier, status created
StepModel(task_id, input, additional_input) ==
    [step_id |-> Len(steps) + 1,
     task_id |-> task_id,
     input |-> input,
     additional_input |-> additional_input,
     status |-> Enum("created"),
     output |-> None,
     is_last |-> FALSE]

\* mutant of db_create_step: an upsert, which resets the record the task already
\* has for the same input instead of adding one
db_create_step_upsert(task_id, input, additional_input) ==
    LET same == {i \in 1..Len(steps) : steps[i].task_id = task_id /\ steps[i].input = input}
    IN  IF same = {}
        THEN Append(steps, StepModel(task_id, input, additional_input))
        ELSE [i \in 1..Len(steps) |->
                IF i \in same
                THEN [StepModel(task_id, input, additional_input) EXCEPT !.step_id = i]
                ELSE steps[i]]

\* db.create_step(task_id, input, additional_input): the table afterwards;
\* the new record is its last one
db_create_step(task_id, input, additional_input) ==
    Append(steps, StepModel(task_id, input, additional_input))

\* the Artifact objects of a step, in creation order
ArtifactsOfStep(step_id) == SelectSeq(artifacts, LAMBDA a : a.step_id = step_id)

\* the Step object the store hands out for a record
StepObject(rec) == rec @@ [artifacts |-> ArtifactsOfStep(rec.step_id)]

\* the record the store keeps of a Step object
StepRecord(step) ==
    [step_id |-> step.step_id,
     task_id |-> step.task_id,
     input |-> step.input,
     additional_input |-> step.additional_input,
     status |-> Enum(step.status.value),
     output |-> step.output,
     is_last |-> step.is_last]

\* db.update_step(step): the store after persisting the object's fields
db_update_step(step) == [steps EXCEPT ![step.step_id] = StepRecord(step)]

\* the steps of a task, in creation order
TaskSteps(task_id) == SelectSeq(steps, LAMBDA s : s.task_id = task_id)

Min(a, b) == IF a < b THEN a ELSE b

\* db.list_steps(task_id, page, per_page): one page, in creation order
db_list_steps(task_id, page, per_page) ==
    LET all == TaskSteps(task_id)
        lo == (page - 1) * per_page + 1
        hi == Min(page * per_page, Len(all))
        recs == SubSeq(all, lo, hi)
    IN  [i \in 1..Len(recs) |-> StepObject(recs[i])]

\* db.create_artifact(task_id, file_name, uri | relative_path, agent_created, step_id)
db_create_artifact(task_id, file_name, relative_path, uri, agent_created, step_id) ==
    [artifact_id |-> Len(artifacts) + 1,
     task_id |-> task_id,
     step_id |-> step_id,
     file_name |-> file_name,
     relative_path |-> relative_path,
     uri |-> uri,
     agent_created |-> agent_created]

\* ---- results of a call ---------------------------------------------------
NoRet == [kind |-> "none"]
NoLoc == [op |-> "none"]

\* a raised exception; made lists the step records the call had created
Raised(op, path, error, task_id, made) ==
    [kind |-> "error", op |-> op, path |-> path, error |-> error,
     task_id |-> task_id, made |-> made]

\* mutant of PostProcess: step.output = "Done some work" is left out
PostProcess_keeps_output(step) ==
    IF IsStatusEnum(step.status)
    THEN [step EXCEPT !.status = Str(step.status.value)]
    ELSE step

\* mutant of PostProcess: the status is returned as the store represents it
PostProcess_keeps_status(step) == [step EXCEPT !.output = DoneSomeWork]

\* the post-processing of create_and_execute_step before it returns the step
PostProcess(step) ==
    LET normalized == IF IsStatusEnum(step.status)
                      THEN [step EXCEPT !.status = Str(step.status.value)]
                      ELSE step
    IN  [normalized EXCEPT !.output = DoneSomeWork]

\* a returned Step; path is the branch taken, made the step records created
Returned(path, task_id, step, made, descs) ==
    [kind |-> "Step", op |-> "create_and_execute_step", path |-> path,
     task_id |-> task_id, step |-> PostProcess(step), made |-> made, descs |-> descs]

\* slot p can take a new request
Free(p) ==
    /\ pc[p] = "idle"
    /\ \A q \in Procs : q < p => pc[q] # "idle"

Init ==
    /\ tasks = <<>>
    /\ steps = <<>>
    /\ artifacts = <<>>
    /\ workspace = <<>>
    /\ uuids = 0
    /\ pc = [p \in Procs |-> "idle"]
    /\ loc = [p \in Procs |-> NoLoc]
    /\ ret = NoRet

\* ---- create_task ---------------------------------------------------------
create_task(p, req, lim) ==
    /\ Free(p)
    /\ Len(tasks) < lim
    /\ tasks' = Append(tasks, db_create_task(req))
    /\ ret' = [kind |-> "Task", op |-> "create_task", task |-> db_create_task(req)]
    /\ UNCHANGED <<steps, artifacts, workspace, uuids, pc, loc>>

\* ---- create_and_execute_step, normal path (input != "y") ---------------
\* mutant of Completed: step.status = "completed" is left out
Completed_unset(step) == step

\* the step object once the loop over the descriptors is over
Completed(step) == [step EXCEPT !.status = Str("completed")]

\* await db.create_step; artifacts = run(step.input); the loop is entered,
\* or, with no descriptor, the step is completed and returned
normal_create_step(p, task_id, step_request, descs, lim) ==
    /\ Free(p)
    /\ task_id \in TaskIds
    /\ step_request.input # Sentinel
    /\ Len(steps) < lim
    /\ steps' = db_create_step(task_id, step_request, step_request.additional_input)
    /\ LET rec == steps'[Len(steps')]
           step == rec @@ [artifacts |-> <<>>]
       IN  /\ IF descs = <<>>
              THEN /\ pc' = pc
                   /\ loc' = loc
                   /\ ret' = Returned("normal", task_id, Completed(step), <<rec.step_id>>, descs)
              ELSE /\ pc' = [pc EXCEPT ![p] = "normal_create_artifact"]
                   /\ loc' = [loc EXCEPT ![p] =
                                [op |-> "create_and_execute_step", task_id |-> task_id,
                                 step |-> step, descs |-> descs, made |-> <<rec.step_id>>]]
                   /\ ret' = NoRet
    /\ UNCHANGED <<tasks, artifacts, workspace, uuids>>

\* await db.create_step succeeds and run(step.input) raises
normal_run_fails(p, task_id, step_request, lim) ==
    /\ Free(p)
    /\ task_id \in TaskIds
    /\ step_request.input # Sentinel
    /\ Len(steps) < lim
    /\ steps' = db_create_step(task_id, step_request, step_request.additional_input)
    /\ ret' = Raised("create_and_execute_step", "normal", "WorkExecutorFailure",
                     task_id, <<steps'[Len(steps')].step_id>>)
    /\ UNCHANGED <<tasks, artifacts, workspace, uuids, pc, loc>>

\* mutant of step_artifact: the step's identifier is passed as the task's
step_artifact_swapped(step, artifact) ==
    db_create_artifact(step.step_id, artifact.file_name, None, artifact.uri, TRUE, step.step_id)

\* db.create_artifact(task_id=step.task_id, file_name=artifact["file_name"],
\* uri=artifact["uri"], agent_created=True, step_id=step.step_id)
step_artifact(step, artifact) ==
    db_create_artifact(step.task_id, artifact.file_name, None, artifact.uri, TRUE, step.step_id)

\* one turn of the loop: await db.create_artifact; step.artifacts.append(art);
\* after the last descriptor the step is completed and returned
normal_create_artifact(p) ==
    /\ pc[p] = "normal_create_artifact"
    /\ Len(artifacts) < MaxArtifacts
    /\ LET step == loc[p].step
           artifact == loc[p].descs[Len(step.artifacts) + 1]
           art == step_artifact(step, artifact)
           next == [step EXCEPT !.artifacts = Append(@, art)]
       IN  /\ artifacts' = Append(artifacts, art)
           /\ IF Len(next.artifacts) = Len(loc[p].descs)
              THEN /\ pc' = [pc EXCEPT ![p] = "idle"]
                   /\ loc' = [loc EXCEPT ![p] = NoLoc]
                   /\ ret' = Returned("normal", loc[p].task_id, Completed(next),
                                       loc[p].made, loc[p].descs)
              ELSE /\ pc' = pc
                   /\ loc' = [loc EXCEPT ![p].step = next]
                   /\ ret' = NoRet
    /\ UNCHANGED <<tasks, steps, workspace, uuids>>

\* await db.create_artifact raises inside the loop
normal_create_artifact_fails(p) ==
    /\ pc[p] = "normal_create_artifact"
    /\ pc' = [pc EXCEPT ![p] = "idle"]
    /\ loc' = [loc EXCEPT ![p] = NoLoc]
    /\ ret' = Raised("create_and_execute_step", "normal", "StoreFailure",
                     loc[p].task_id, loc[p].made)
    /\ UNCHANGED <<tasks, steps, artifacts, workspace, uuids>>

\* ---- create_and_execute_step, continuation path (input == "y") ---------
\* next((s for s in reversed(steps) if s.status != "completed"), None):
\* the position of the latest step of the list that is not completed, 0 for None
LatestIncomplete(listed) ==
    LET open == {i \in 1..Len(listed) : ~StatusIs(listed[i].status, "completed")}
    IN  IF open = {} THEN 0 ELSE CHOOSE i \in open : \A j \in open : j <= i

\* what the continuation path fetches: page 1 of 100
Fetched(task_id) == db_list_steps(task_id, 1, PerPage)

\* mutant of continuation_enter: a per-task lock, held for the whole
\* placeholder branch, is taken first
continuation_enter_locked(p, task_id) ==
    /\ Free(p)
    /\ task_id \in TaskIds
    /\ \A q \in Procs :
          pc[q] \in {"placeholder_create_step", "placeholder_update_step"}
             => loc[q].task_id # task_id

\* a request enters the else branch: nothing is taken or waited for first
continuation_enter(p, task_id) ==
    /\ Free(p)
    /\ task_id \in TaskIds

\* await db.list_steps and the scan; an incomplete step is returned at once
continuation_list_steps(p, task_id) ==
    /\ continuation_enter(p, task_id)
    /\ LET listed == Fetched(task_id)
           found == LatestIncomplete(listed)
       IN  IF found # 0
           THEN /\ pc' = pc
                /\ loc' = loc
                /\ ret' = Returned("resumed", task_id, listed[found], <<>>, <<>>)
           ELSE /\ pc' = [pc EXCEPT ![p] = "placeholder_create_step"]
                /\ loc' = [loc EXCEPT ![p] =
                             [op |-> "create_and_execute_step", task_id |-> task_id,
                              seen |-> Len(TaskSteps(task_id)), made |-> <<>>]]
                /\ ret' = NoRet
    /\ UNCHANGED <<tasks, steps, artifacts, workspace, uuids>>

\* mutant of Placeholder: step.is_last = True is left out
Placeholder_not_last(step) ==
    [step EXCEPT !.status = Str("completed"), !.output = NoMoreSteps]

\* the placeholder object after step.status, step.is_last and step.output are set
Placeholder(step) ==
    [step EXCEPT !.status = Str("completed"), !.is_last = TRUE, !.output = NoMoreSteps]

\* await db.create_step(task_id, "y", {}) and the three assignments
placeholder_create_step(p, lim) ==
    /\ pc[p] = "placeholder_create_step"
    /\ Len(steps) < lim
    /\ steps' = db_create_step(loc[p].task_id, StrInput(Sentinel), EmptyDict)
    /\ LET rec == steps'[Len(steps')]
           step == rec @@ [artifacts |-> <<>>]
       IN  /\ loc' = [loc EXCEPT ![p] =
                        [op |-> "create_and_execute_step", task_id |-> loc[p].task_id,
                         seen |-> loc[p].seen, step |-> Placeholder(step),
                         made |-> <<rec.step_id>>]]
    /\ pc' = [pc EXCEPT ![p] = "placeholder_update_step"]
    /\ ret' = NoRet
    /\ UNCHANGED <<tasks, artifacts, workspace, uuids>>

\* step = await db.update_step(step); post-processing; return
placeholder_update_step(p) ==
    /\ pc[p] = "placeholder_update_step"
    /\ steps' = db_update_step(loc[p].step)
    /\ pc' = [pc EXCEPT ![p] = "idle"]
    /\ loc' = [loc EXCEPT ![p] = NoLoc]
    /\ ret' = Returned("placeholder", loc[p].task_id,
                          StepObject(steps'[loc[p].step.step_id]), loc[p].made, <<>>)
              @@ [seen |-> loc[p].seen]
    /\ UNCHANGED <<tasks, artifacts, workspace, uuids>>

\* await db.create_step or await db.update_step raises on the placeholder branch
placeholder_fails(p) ==
    /\ pc[p] \in {"placeholder_create_step", "placeholder_update_step"}
    /\ pc' = [pc EXCEPT ![p] = "idle"]
    /\ loc' = [loc EXCEPT ![p] = NoLoc]
    /\ ret' = Raised("create_and_execute_step", "placeholder", "StoreFailure",
                     loc[p].task_id, loc[p].made)
    /\ UNCHANGED <<tasks, steps, artifacts, workspace, uuids>>

\* ---- str and os.path ----------------------------------------------------
\* s.endswith(suffix)
endswith(s, suffix) ==
    /\ Len(suffix) <= Len(s)
    /\ SubSeq(s, Len(s) - Len(suffix) + 1, Len(s)) = suffix

\* os.path.join(a, b) of posixpath
os_path_join(a, b) ==
    IF Len(b) > 0 /\ b[1] = "/" THEN b
    ELSE IF a = <<>> \/ a[Len(a)] = "/" THEN a \o b
    ELSE a \o <<"/">> \o b

\* ---- Workspace ----------------------------------------------------------
\* workspace.write(task_id, path, data): the workspace afterwards
workspace_write(task_id, path, data) ==
    [k \in DOMAIN workspace \cup {<<task_id, path>>} |->
        IF k = <<task_id, path>> THEN data ELSE workspace[k]]

\* workspace.read(task_id, path) finds a blob
workspace_has(task_id, path) == <<task_id, path>> \in DOMAIN workspace

\* workspace.read(task_id, path)
workspace_read(task_id, path) == workspace[<<task_id, path>>]

\* ---- create_artifact ----------------------------------------------------
\* mutant of file_path_of: the file name is always joined on
file_path_of_always_join(relative_path, file_name) == os_path_join(relative_path, file_name)

\* the path create_artifact writes the bytes to
file_path_of(relative_path, file_name) ==
    IF endswith(relative_path, file_name)
    THEN relative_path
    ELSE os_path_join(relative_path, file_name)

\* file_name = file.filename or str(uuid4()); the read loop; the path;
\* self.workspace.write(task_id, file_path, data), up to await db.create_artifact
create_artifact_write(p, task_id, filename, relative_path, data) ==
    /\ Free(p)
    /\ task_id \in TaskIds
    /\ filename = <<>> => uuids < Len(UuidNames)
    /\ LET file_name == IF filename = <<>> THEN UuidNames[uuids + 1] ELSE filename
           file_path == file_path_of(relative_path, file_name)
       IN  /\ \/ workspace_has(task_id, file_path)
              \/ Cardinality(DOMAIN workspace) < MaxBlobs
           /\ workspace' = workspace_write(task_id, file_path, data)
           /\ uuids' = IF filename = <<>> THEN uuids + 1 ELSE uuids
           /\ loc' = [loc EXCEPT ![p] =
                        [op |-> "create_artifact", task_id |-> task_id,
                         file_name |-> file_name, relative_path |-> relative_path,
                         file_path |-> file_path, data |-> data]]
    /\ pc' = [pc EXCEPT ![p] = "create_artifact_record"]
    /\ ret' = NoRet
    /\ UNCHANGED <<tasks, steps, artifacts>>

\* artifact = await db.create_artifact(...); return artifact
create_artifact_record(p, lim) ==
    /\ pc[p] = "create_artifact_record"
    /\ Len(artifacts) < lim
    /\ LET artifact == db_create_artifact(loc[p].task_id, loc[p].file_name,
                                          loc[p].relative_path, None, FALSE, 0)
       IN  /\ artifacts' = Append(artifacts, artifact)
           /\ ret' = [kind |-> "Artifact", op |-> "create_artifact",
                         task_id |-> loc[p].task_id, artifact |-> artifact,
                         file_path |-> loc[p].file_path, data |-> loc[p].data]
    /\ pc' = [pc EXCEPT ![p] = "idle"]
    /\ loc' = [loc EXCEPT ![p] = NoLoc]
    /\ UNCHANGED <<tasks, steps, workspace, uuids>>

\* await db.create_artifact raises: the exception is re-raised
create_artifact_record_fails(p) ==
    /\ pc[p] = "create_artifact_record"
    /\ pc' = [pc EXCEPT ![p] = "idle"]
    /\ loc' = [loc EXCEPT ![p] = NoLoc]
    /\ ret' = Raised("create_artifact", "upload", "StoreFailure", loc[p].task_id, <<>>)
    /\ UNCHANGED <<tasks, steps, artifacts, workspace, uuids>>

\* ---- get_artifact -------------------------------------------------------
\* the path get_artifact reads: os.path.join(artifact.relative_path, artifact.file_name)
read_path_of(artifact) == os_path_join(artifact.relative_path, artifact.file_name)

\* what get_artifact(task_id, artifact_id) returns or raises
get_artifact_result(task_id, artifact_id) ==
    IF artifact_id \notin 1..Len(artifacts)
    THEN Raised("get_artifact", "read", "NotFoundError", task_id, <<>>)
    ELSE LET artifact == artifacts[artifact_id] IN
         IF artifact.relative_path = None
         THEN Raised("get_artifact", "read", "TypeError", task_id, <<>>)
         ELSE IF ~workspace_has(task_id, read_path_of(artifact))
         THEN Raised("get_artifact", "read", "FileNotFoundError", task_id, <<>>)
         ELSE [kind |-> "FileResponse", op |-> "get_artifact", task_id |-> task_id,
               artifact_id |-> artifact_id, filename |-> artifact.file_name,
               data |-> workspace_read(task_id, read_path_of(artifact))]

get_artifact(p, task_id, artifact_id) ==
    /\ Free(p)
    /\ ret' = get_artifact_result(task_id, artifact_id)
    /\ UNCHANGED <<tasks, steps, artifacts, workspace, uuids, pc, loc>>

\* ---- the readers ---------------------------------------------------------
\* page and pageSize values a client sends to the list operations
Pages == {1, 2}
PageSizes == {1, 2}

CeilDiv(a, b) == (a + b - 1) \div b

\* the pagination metadata the store returns with a page
Pagination(total, page, per_page) ==
    [current_page |-> page, page_size |-> per_page,
     total_items |-> total, total_pages |-> CeilDiv(total, per_page)]

\* one page of a sequence of records
PageOf(all, page, per_page) ==
    SubSeq(all, (page - 1) * per_page + 1, Min(page * per_page, Len(all)))

TaskArtifacts(task_id) == SelectSeq(artifacts, LAMBDA a : a.task_id = task_id)

\* db.get_task(task_id): the record, or NotFoundError
db_get_task(task_id) ==
    IF task_id \in TaskIds
    THEN [kind |-> "Task", op |-> "get_task", task |-> tasks[task_id]]
    ELSE Raised("get_task", "read", "NotFoundError", task_id, <<>>)

\* db.get_step(task_id, step_id): the record with its artifacts, or NotFoundError
db_get_step(task_id, step_id) ==
    IF step_id \in 1..Len(steps) /\ steps[step_id].task_id = task_id
    THEN [kind |-> "StepRead", op |-> "get_step", step |-> StepObject(steps[step_id])]
    ELSE Raised("get_step", "read", "NotFoundError", task_id, <<>>)

\* db.list_tasks(page, per_page): (tasks, pagination)
db_list_tasks(page, per_page) ==
    [items |-> PageOf(tasks, page, per_page),
     pagination |-> Pagination(Len(tasks), page, per_page)]

\* the pagination db.list_steps returns next to its page
db_list_steps_pagination(task_id, page, per_page) ==
    Pagination(Len(TaskSteps(task_id)), page, per_page)

\* db.list_artifacts(task_id, page, per_page): (artifacts, pagination)
db_list_artifacts(task_id, page, per_page) ==
    [items |-> PageOf(TaskArtifacts(task_id), page, per_page),
     pagination |-> Pagination(Len(TaskArtifacts(task_id)), page, per_page)]

\* mutant of get_task: a task that is not found is created
get_task_or_create(p, task_id) ==
    /\ Free(p)
    /\ ret' = db_get_task(task_id)
    /\ tasks' = IF task_id \in TaskIds THEN tasks
                ELSE Append(tasks, db_create_task([input |-> "goal", additional_input |-> EmptyDict]))
    /\ UNCHANGED <<steps, artifacts, workspace, uuids, pc, loc>>

\* get_task(task_id): task = await self.db.get_task(task_id); return task
get_task(p, task_id) ==
    /\ Free(p)
    /\ ret' = db_get_task(task_id)
    /\ UNCHANGED <<tasks, steps, artifacts, workspace, uuids, pc, loc>>

\* list_tasks(page, pageSize): TaskListResponse(tasks, pagination)
list_tasks(p, page, pageSize) ==
    /\ Free(p)
    /\ ret' = [kind |-> "TaskListResponse", op |-> "list_tasks",
               tasks |-> db_list_tasks(page, pageSize).items,
               pagination |-> db_list_tasks(page, pageSize).pagination]
    /\ UNCHANGED <<tasks, steps, artifacts, workspace, uuids, pc, loc>>

\* mutant of list_steps_response: page and pageSize change places
list_steps_response_swapped(task_id, page, pageSize) ==
    [kind |-> "TaskStepsListResponse", op |-> "list_steps", task_id |-> task_id,
     steps |-> db_list_steps(task_id, pageSize, page),
     pagination |-> db_list_steps_pagination(task_id, page, pageSize)]

\* steps, pagination = await self.db.list_steps(task_id, page, pageSize);
\* TaskStepsListResponse(steps=steps, pagination=pagination)
list_steps_response(task_id, page, pageSize) ==
    [kind |-> "TaskStepsListResponse", op |-> "list_steps", task_id |-> task_id,
     steps |-> db_list_steps(task_id, page, pageSize),
     pagination |-> db_list_steps_pagination(task_id, page, pageSize)]

\* list_steps(task_id, page, pageSize)
list_steps(p, task_id, page, pageSize) ==
    /\ Free(p)
    /\ ret' = list_steps_response(task_id, page, pageSize)
    /\ UNCHANGED <<tasks, steps, artifacts, workspace, uuids, pc, loc>>

\* get_step(task_id, step_id): step = await self.db.get_step(task_id, step_id)
get_step(p, task_id, step_id) ==
    /\ Free(p)
    /\ ret' = db_get_step(task_id, step_id)
    /\ UNCHANGED <<tasks, steps, artifacts, workspace, uuids, pc, loc>>

\* list_artifacts(task_id, page, pageSize): a Response whose content is the
\* TaskArtifactsListResponse
list_artifacts(p, task_id, page, pageSize) ==
    /\ Free(p)
    /\ ret' = [kind |-> "Response", op |-> "list_artifacts", task_id |-> task_id,
               artifacts |-> db_list_artifacts(task_id, page, pageSize).items,
               pagination |-> db_list_artifacts(task_id, page, pageSize).pagination]
    /\ UNCHANGED <<tasks, steps, artifacts, workspace, uuids, pc, loc>>

\* ---- the program --------------------------------------------------------
\* tasks and the step protocol: create_task and create_and_execute_step
Next ==
    \/ \E p \in Procs, req \in TaskRequests : create_task(p, req, MaxTasks)
    \/ \E p \in Procs, t \in TaskIds, req \in StepRequests, descs \in RunOutputs :
          normal_create_step(p, t, req, descs, MaxSteps)
    \/ \E p \in Procs, t \in TaskIds, req \in StepRequests : normal_run_fails(p, t, req, MaxSteps)
    \/ \E p \in Procs : normal_create_artifact(p)
    \/ \E p \in Procs : normal_create_artifact_fails(p)
    \/ \E p \in Procs, t \in TaskIds : continuation_list_steps(p, t)
    \/ \E p \in Procs : placeholder_create_step(p, MaxSteps)
    \/ \E p \in Procs : placeholder_update_step(p)
    \/ \E p \in Procs : placeholder_fails(p)

Spec == Init /\ [][Next]_vars

\* tasks and client artifacts: create_task, create_artifact and get_artifact
NextArtifacts ==
    \/ \E p \in Procs, req \in TaskRequests : create_task(p, req, Cardinality(UploadTasks))
    \/ \E p \in Procs, t \in TaskIds, f \in FileNames, r \in RelativePaths, d \in Bytes :
          create_artifact_write(p, t, f, r, d)
    \/ \E p \in Procs : create_artifact_record(p, MaxUploads)
    \/ \E p \in Procs : create_artifact_record_fails(p)
    \/ \E p \in Procs, t \in UploadTasks, a \in 1..(MaxUploads + 1) : get_artifact(p, t, a)

SpecArtifacts == Init /\ [][NextArtifacts]_vars

\* one task driven by one request at a time, the work executor the only
\* collaborator that fails, up to more steps than one page of the continuation
\* scan holds
NextLong ==
    \/ \E p \in LongProcs, req \in TaskRequests : create_task(p, req, 1)
    \/ \E p \in LongProcs, t \in TaskIds, req \in StepRequests :
          normal_create_step(p, t, req, <<>>, MaxLongSteps)
    \/ \E p \in LongProcs, t \in TaskIds, req \in StepRequests :
          normal_run_fails(p, t, req, MaxLongSteps)
    \/ \E p \in LongProcs, t \in TaskIds : continuation_list_steps(p, t)
    \/ \E p \in LongProcs : placeholder_create_step(p, MaxLongSteps)
    \/ \E p \in LongProcs : placeholder_update_step(p)

SpecLong == Init /\ [][NextLong]_vars

\* the identifiers a reader is called with: those of the records and one more
ReadTaskIds == 1..(MaxTasks + 1)
ReadStepIds == 1..(MaxSteps + 1)
ReadArtifactIds == 1..(MaxUploads + 1)

\* every operation under one request at a time, no collaborator failing
NextReaders ==
    \/ \E p \in LongProcs, req \in TaskRequests : create_task(p, req, MaxTasks)
    \/ \E p \in LongProcs, t \in TaskIds, req \in StepRequests :
          normal_create_step(p, t, req, <<>>, MaxSteps)
    \/ \E p \in LongProcs, t \in TaskIds : continuation_list_steps(p, t)
    \/ \E p \in LongProcs : placeholder_create_step(p, MaxSteps)
    \/ \E p \in LongProcs : placeholder_update_step(p)
    \/ \E p \in LongProcs, t \in TaskIds :
          create_artifact_write(p, t, <<"c">>, <<"/", "a", "/">>, "x")
    \/ \E p \in LongProcs : create_artifact_record(p, MaxUploads)
    \/ \E p \in LongProcs, t \in ReadTaskIds : get_task(p, t)
    \/ \E p \in LongProcs, page \in Pages, pageSize \in PageSizes : list_tasks(p, page, pageSize)
    \/ \E p \in LongProcs, t \in ReadTaskIds, s \in ReadStepIds : get_step(p, t, s)
    \/ \E p \in LongProcs, t \in ReadTaskIds, page \in Pages, pageSize \in PageSizes :
          list_steps(p, t, page, pageSize)
    \/ \E p \in LongProcs, t \in ReadTaskIds, page \in Pages, pageSize \in PageSizes :
          list_artifacts(p, t, page, pageSize)
    \/ \E p \in LongProcs, t \in ReadTaskIds, a \in ReadArtifactIds : get_artifact(p, t, a)

SpecReaders == Init /\ [][NextReaders]_vars

\* a continuation call on the task, at whichever of its awaits it stands
continuation_call(task_id) ==
    \E p \in LongProcs :
       \/ continuation_list_steps(p, task_id)
       \/ loc[p].op = "create_and_execute_step" /\ loc[p].task_id = task_id
             /\ placeholder_create_step(p, MaxSteps)
       \/ loc[p].op = "create_and_execute_step" /\ loc[p].task_id = task_id
             /\ placeholder_update_step(p)

\* a client that drives its tasks: one request at a time, no collaborator
\* failing, and continuation calls issued on every task again and again
NextDrive ==
    \/ \E p \in LongProcs, req \in TaskRequests : create_task(p, req, Cardinality(UploadTasks))
    \/ \E p \in LongProcs, t \in TaskIds, req \in StepRequests :
          normal_create_step(p, t, req, <<>>, MaxSteps)
    \/ \E t \in UploadTasks : continuation_call(t)

SpecDrive ==
    Init /\ [][NextDrive]_vars /\ \A t \in UploadTasks : WF_vars(continuation_call(t))

\* ======== properties =======================================================
\* the positions in the store of the steps of a task that are not completed
IncompleteOf(task_id) ==
    {i \in 1..Len(steps) : steps[i].task_id = task_id /\ ~StatusIs(steps[i].status, "completed")}

\* a stored record that is a completed placeholder
IsPlaceholderRecord(rec) ==
    /\ rec.input = StrInput(Sentinel)
    /\ rec.additional_input = EmptyDict
    /\ StatusIs(rec.status, "completed")
    /\ rec.is_last

\* the latest action returned a Step on the given branch
ReturnedOn(path) == ret.kind = "Step" /\ ret.path = path

\* C1: a continuation call on a task that has a step whose stored status is not
\* completed returns at once a stored, non-completed step of that task, creates
\* no step and leaves every task, step and artifact record as it was.
C1_ResumptionLeavesStore ==
    [][\A p \in Procs, t \in TaskIds :
          (continuation_list_steps(p, t) /\ IncompleteOf(t) # {}) =>
             /\ store' = store
             /\ ret'.kind = "Step"
             /\ ret'.path = "resumed"
             /\ ret'.made = <<>>
             /\ ret'.step.step_id \in IncompleteOf(t)]_vars

\* C2, part one: a placeholder call has created exactly one step, appended to the
\* steps its scan saw, whose persisted record has input "y", empty
\* additional_input, status completed and is_last = true.
PlaceholderPersisted ==
    ReturnedOn("placeholder") =>
       /\ Len(ret.made) = 1
       /\ ret.made[1] \in 1..Len(steps)
       /\ ret.step.step_id = ret.made[1]
       /\ steps[ret.made[1]].task_id = ret.task_id
       /\ IsPlaceholderRecord(steps[ret.made[1]])
       /\ \E k \in (ret.seen + 1)..Len(TaskSteps(ret.task_id)) :
             TaskSteps(ret.task_id)[k].step_id = ret.made[1]

\* C2, part two: a normal-path return is a function of the request and of what
\* the work executor produced alone, whatever continuation calls came before.
NormalUnaffected ==
    ReturnedOn("normal") =>
       /\ Len(ret.made) = 1
       /\ ret.step.step_id = ret.made[1]
       /\ ret.step.input.type = "StepRequestBody"
       /\ ret.step.input.input # Sentinel
       /\ ret.step.status = Str("completed")
       /\ ret.step.output = DoneSomeWork
       /\ ~ret.step.is_last
       /\ Len(ret.step.artifacts) = Len(ret.descs)

\* C2, part three: a continuation call on a task without incomplete step goes on
\* to create a placeholder, and the placeholder it persists leaves the task
\* without incomplete step again, so that N such calls in a row create N steps.
PlaceholderEachTime ==
    \A p \in Procs :
       /\ \A t \in TaskIds :
             (continuation_list_steps(p, t) /\ IncompleteOf(t) = {}) =>
                (pc'[p] = "placeholder_create_step" /\ store' = store)
       /\ (placeholder_create_step(p, Len(steps) + 1)) =>
             (Len(steps') = Len(steps) + 1 /\ pc'[p] = "placeholder_update_step")
       /\ (placeholder_update_step(p) /\ IncompleteOf(loc[p].task_id) = {loc[p].step.step_id}) =>
             (Len(steps') = Len(steps) /\ {i \in 1..Len(steps') : steps'[i].task_id = loc[p].task_id
                     /\ ~StatusIs(steps'[i].status, "completed")} = {})

\* C2: continuation under completion.
C2_ContinuationUnderCompletion ==
    /\ [](PlaceholderPersisted /\ NormalUnaffected)
    /\ [][PlaceholderEachTime]_vars

\* C2 witness: the second placeholder in a row of a task has just been returned.
C2_Witness ==
    /\ ReturnedOn("placeholder")
    /\ \E i \in 1..Len(steps) :
          /\ i < ret.made[1]
          /\ steps[i].task_id = ret.task_id
          /\ IsPlaceholderRecord(steps[i])
    /\ IncompleteOf(ret.task_id) = {}

\* the last n elements of a sequence
LastN(seq, n) == SubSeq(seq, (IF Len(seq) > n THEN Len(seq) - n ELSE 0) + 1, Len(seq))

\* C3: the continuation scan looks at the most recent 100 steps of the task: it
\* returns the most recently created one of them that is not completed, and goes
\* on to create a placeholder only if none of them is incomplete.
C3_ScansMostRecent ==
    [][\A p \in Procs, t \in TaskIds :
          continuation_list_steps(p, t) =>
             LET recent == LastN(TaskSteps(t), PerPage)
                 latest == LatestIncomplete(recent)
             IN  IF latest # 0
                 THEN /\ ret'.kind = "Step"
                      /\ ret'.path = "resumed"
                      /\ ret'.step.step_id = recent[latest].step_id
                 ELSE pc'[p] = "placeholder_create_step"]_vars

\* C4: a normal-path call that returns has created exactly one step, under the
\* given task, and the store holds exactly one Artifact record per descriptor the
\* work executor returned, in descriptor order, each agent-created and owned by
\* that step; the returned step carries them and has status completed.
C4_NormalPath ==
    ReturnedOn("normal") =>
       /\ Len(ret.made) = 1
       /\ ret.made[1] \in 1..Len(steps)
       /\ ret.step.step_id = ret.made[1]
       /\ steps[ret.made[1]].step_id = ret.made[1]
       /\ steps[ret.made[1]].task_id = ret.task_id
       /\ StatusIs(ret.step.status, "completed")
       /\ LET arts == ArtifactsOfStep(ret.step.step_id)
          IN  /\ Len(arts) = Len(ret.descs)
              /\ ret.step.artifacts = arts
              /\ \A i \in 1..Len(arts) :
                    /\ arts[i].file_name = ret.descs[i].file_name
                    /\ arts[i].uri = ret.descs[i].uri
                    /\ arts[i].agent_created
                    /\ arts[i].step_id = ret.step.step_id
                    /\ arts[i].task_id = ret.task_id

\* C4 witness: a normal-path call returns after registering two artifacts.
C4_Witness ==
    /\ ReturnedOn("normal")
    /\ Len(ret.descs) = 2
    /\ Len(ArtifactsOfStep(ret.step.step_id)) = 2

\* created -> running -> completed
Rank(status) ==
    IF StatusIs(status, "created") THEN 0
    ELSE IF StatusIs(status, "running") THEN 1
    ELSE 2

\* C5: no step record ever goes back in created -> running -> completed, and no
\* record is dropped or replaced by the record of another step.
C5_StatusForward ==
    [][/\ Len(steps') >= Len(steps)
       /\ \A i \in 1..Len(steps) :
             /\ steps'[i].step_id = steps[i].step_id
             /\ Rank(steps'[i].status) >= Rank(steps[i].status)]_vars

\* C5 witness: a record has moved from created to completed while another
\* request is in the middle of a call on the same store.
C5_Witness ==
    /\ ReturnedOn("placeholder")
    /\ StatusIs(steps[ret.made[1]].status, "completed")
    /\ \E p \in Procs : pc[p] # "idle"

\* C6: every task has at most one step that is not completed.
C6_AtMostOneInProgress ==
    \A t \in TaskIds : Cardinality(IncompleteOf(t)) <= 1

\* a request is suspended on the placeholder branch of a task
OnPlaceholderBranch(p, task_id) ==
    /\ pc[p] \in {"placeholder_create_step", "placeholder_update_step"}
    /\ loc[p].task_id = task_id

\* C7: nothing excludes two continuation calls on one task from each other:
\* while one is suspended on the placeholder branch and the task still shows no
\* incomplete step, another can scan it and take the placeholder branch too, and
\* two requests that both found no incomplete step can both create their step.
C7_NoMutualExclusion ==
    \A p, q \in Procs :
       /\ (/\ p # q
           /\ Free(p)
           /\ pc[q] \in {"placeholder_create_step", "placeholder_update_step"}
           /\ LatestIncomplete(Fetched(loc[q].task_id)) = 0)
          => ENABLED (/\ continuation_list_steps(p, loc[q].task_id)
                      /\ pc'[p] = "placeholder_create_step")
       /\ (/\ p # q
           /\ pc[p] = "placeholder_create_step"
           /\ OnPlaceholderBranch(q, loc[p].task_id))
          => ENABLED placeholder_create_step(p, Len(steps) + 1)

\* C7 witness: a placeholder is returned whose scan saw n steps of the task,
\* and the two steps of the task that follow those n are both placeholders, one
\* of them created by an overlapping call.
C7_Witness ==
    /\ ReturnedOn("placeholder")
    /\ LET ts == TaskSteps(ret.task_id)
       IN  /\ Len(ts) >= ret.seen + 2
           /\ IsPlaceholderRecord(ts[ret.seen + 1])
           /\ IsPlaceholderRecord(ts[ret.seen + 2])

\* the latest action was a normal-path call that raised after creating its step
NormalFailed ==
    /\ ret.kind = "error"
    /\ ret.op = "create_and_execute_step"
    /\ ret.path = "normal"
    /\ Len(ret.made) = 1

\* C8: when the normal path fails after its step record was created, the failure
\* is raised to the caller, the record stays in the store with a non-terminal
\* status together with the artifacts already registered, and the continuation
\* call that follows on that task returns that step as incomplete and creates no
\* placeholder.
C8_FailedStepResumed ==
    /\ [](NormalFailed =>
            /\ ret.made[1] \in 1..Len(steps)
            /\ steps[ret.made[1]].task_id = ret.task_id
            /\ ~StatusIs(steps[ret.made[1]].status, "completed")
            /\ \A i \in 1..Len(ArtifactsOfStep(ret.made[1])) :
                  ArtifactsOfStep(ret.made[1])[i].agent_created)
    /\ [][\A p \in Procs :
             (NormalFailed /\ continuation_list_steps(p, ret.task_id)) =>
                /\ ret'.kind = "Step"
                /\ ret'.path = "resumed"
                /\ ret'.step.step_id = ret.made[1]
                /\ ~StatusIs(ret'.step.status, "completed")
                /\ store' = store]_vars

\* C9: after create_artifact(task_id, file, relative_path) has returned its
\* Artifact, get_artifact(task_id, artifact_id) answers with exactly the uploaded
\* bytes, also when relative_path ends with the file name.
C9_RoundTrip ==
    ret.kind = "Artifact" =>
       /\ get_artifact_result(ret.task_id, ret.artifact.artifact_id).kind = "FileResponse"
       /\ get_artifact_result(ret.task_id, ret.artifact.artifact_id).data = ret.data

\* C10: every client-uploaded Artifact record of the store has its bytes in the
\* workspace, under the record's task, at the path get_artifact reads for it.
C10_RecordHasBytes ==
    \A i \in 1..Len(artifacts) :
       ~artifacts[i].agent_created =>
          workspace_has(artifacts[i].task_id, read_path_of(artifacts[i]))

\* C11: on every path of create_and_execute_step the returned step's output is
\* "Done some work", written over the output of the branch; the record a
\* placeholder call has persisted before that keeps "No more steps to run.".
C11_OutputOverwritten ==
    ret.kind = "Step" =>
       /\ ret.step.output = DoneSomeWork
       /\ ret.path \in {"normal", "resumed", "placeholder"}
       /\ ret.path = "placeholder" =>
             /\ steps[ret.made[1]].output = NoMoreSteps
             /\ steps[ret.made[1]].step_id = ret.step.step_id

\* C11 witness: a placeholder is returned with the overwritten output while its
\* stored record holds the "no more steps" marker.
C11_Witness ==
    /\ ReturnedOn("placeholder")
    /\ ret.step.output = DoneSomeWork
    /\ steps[ret.step.step_id].output = NoMoreSteps

\* the operations that only read
ReaderOps == {"get_task", "get_step", "get_artifact", "list_tasks", "list_steps", "list_artifacts"}

\* the latest response is that of a reader
IsReaderResponse(r) == r.kind # "none" /\ r.op \in ReaderOps

\* a step that answers a reader leaves every record and every blob as it was
ReadersLeaveStore ==
    IsReaderResponse(ret') => UNCHANGED <<tasks, steps, artifacts, workspace>>

IsNotFound(r) == r.kind = "error" /\ r.error = "NotFoundError"

\* a lookup by an identifier no record has raises NotFound
UnknownIsNotFound ==
    \A p \in LongProcs :
       /\ \A t \in ReadTaskIds \ TaskIds : get_task(p, t) => IsNotFound(ret')
       /\ \A t \in ReadTaskIds, s \in ReadStepIds \ (1..Len(steps)) :
             get_step(p, t, s) => IsNotFound(ret')
       /\ \A t \in ReadTaskIds, a \in ReadArtifactIds \ (1..Len(artifacts)) :
             get_artifact(p, t, a) => IsNotFound(ret')

\* C12: get_task, get_step and get_artifact with an identifier of no record fail
\* with NotFound, and no reader (get_task, get_step, get_artifact, list_tasks,
\* list_steps, list_artifacts) creates, changes or deletes a task, step or
\* artifact record or a workspace blob, whether it succeeds or fails.
C12_ReadersAreReadOnly == [][ReadersLeaveStore /\ UnknownIsNotFound]_vars

\* C12 witness: get_step has raised NotFound for an unknown step while the store
\* holds tasks, steps, an artifact and its blob.
C12_Witness ==
    /\ IsNotFound(ret)
    /\ ret.op = "get_step"
    /\ Len(tasks) > 0
    /\ Len(steps) > 0
    /\ Len(artifacts) > 0
    /\ workspace # <<>>

C14_LastStepIsFinal ==
    \A i, j \in 1..Len(steps) :
       (i < j /\ steps[i].task_id = steps[j].task_id) => ~steps[i].is_last

\* the step identifiers of a sequence of step objects
Ids(seq) == [i \in 1..Len(seq) |-> seq[i].step_id]

\* pages 1..n of list_steps for one page size, joined
RECURSIVE PagesJoined(_, _, _)
PagesJoined(task_id, n, pageSize) ==
    IF n = 0 THEN <<>>
    ELSE PagesJoined(task_id, n - 1, pageSize)
            \o Ids(list_steps_response(task_id, n, pageSize).steps)

\* the page sizes the listing is read with: every size up to one past the
\* number of steps
AllPageSizes == 1..(MaxSteps + 1)

\* for every task and page size the pages of list_steps, joined, are the
\* task's steps once each in creation order
PagesGiveCreationOrder ==
    \A t \in TaskIds, pageSize \in AllPageSizes :
       LET total_pages == list_steps_response(t, 1, pageSize).pagination.total_pages
       IN  /\ PagesJoined(t, total_pages, pageSize) = Ids(TaskSteps(t))
           /\ \A i \in 1..Len(TaskSteps(t)) : i > 1 =>
                 TaskSteps(t)[i - 1].step_id < TaskSteps(t)[i].step_id

\* a step of the program keeps every stored step at its position, with its
\* identifier and task
StepsKeepPlace ==
    /\ Len(steps') >= Len(steps)
    /\ \A i \in 1..Len(steps) :
          /\ steps'[i].step_id = steps[i].step_id
          /\ steps'[i].task_id = steps[i].task_id

\* C15: steps are never deleted or reordered, and for every task and positive
\* page size the pages 1..total_pages of list_steps, joined, give every step of
\* the task exactly once in creation order; a step keeps its position as later
\* steps are created.
C15_ListStepsCreationOrder == []PagesGiveCreationOrder /\ [][StepsKeepPlace]_vars

\* C15 witness: list_steps has returned the second page, of size two, of a task
\* with three steps.
C15_Witness ==
    /\ ret.kind = "TaskStepsListResponse"
    /\ ret.pagination.current_page = 2
    /\ ret.pagination.page_size = 2
    /\ ret.pagination.total_pages = 2
    /\ Len(ret.steps) = 1
    /\ ret.steps[1].step_id = TaskSteps(ret.task_id)[3].step_id

\* a string as the sequence of its characters
PathAB == <<"/", "a", "/", "b", "/">>
PathABC == <<"/", "a", "/", "b", "/", "c", ".", "t", "x", "t">>
NameC == <<"c", ".", "t", "x", "t">>

\* the upload a request has written to the workspace and not yet recorded
Uploading(p) == pc[p] = "create_artifact_record"

\* C16: create_artifact writes the bytes at relative_path itself when
\* relative_path ends with the resolved file name and at relative_path joined
\* with the file name otherwise; ("/a/b/", "c.txt") and ("/a/b/c.txt", "c.txt")
\* both resolve to "/a/b/c.txt", the file name never appearing twice.
C16_PathResolution ==
    /\ \A p \in Procs :
          Uploading(p) =>
             LET r == loc[p].relative_path
                 f == loc[p].file_name
             IN  /\ endswith(r, f) => loc[p].file_path = r
                 /\ ~endswith(r, f) => loc[p].file_path = os_path_join(r, f)
                 /\ endswith(loc[p].file_path, f)
                 /\ ~endswith(loc[p].file_path, f \o f)
                 /\ ~endswith(loc[p].file_path, f \o <<"/">> \o f)
                 /\ workspace_has(loc[p].task_id, loc[p].file_path)
    /\ file_path_of(PathAB, NameC) = PathABC
    /\ file_path_of(PathABC, NameC) = PathABC

\* C16 witness: bytes are written for a relative_path that ends with the file
\* name, at that very path, while another upload was joined to the same path.
C16_Witness ==
    \E p \in Procs :
       /\ Uploading(p)
       /\ endswith(loc[p].relative_path, loc[p].file_name)
       /\ loc[p].file_path = loc[p].relative_path
       /\ \E i \in 1..Len(artifacts) :
             /\ ~endswith(artifacts[i].relative_path, artifacts[i].file_name)
             /\ os_path_join(artifacts[i].relative_path, artifacts[i].file_name) = loc[p].file_path

\* C17: on every path of create_and_execute_step the returned status is a
\* primitive string, never the enumeration value; a step whose internal status
\* is the enumerated completed value is returned with status "completed".
C17_StatusNormalized ==
    ret.kind = "Step" =>
       /\ ~IsStatusEnum(ret.step.status)
       /\ ret.path = "placeholder" =>
             /\ steps[ret.step.step_id].status = Enum("completed")
             /\ ret.step.status = Str("completed")
       /\ ret.path = "normal" => ret.step.status = Str("completed")
       /\ ret.step.status.value = "completed" => ret.step.status = Str("completed")

\* C17 witness: a placeholder, whose record update_step stored with the
\* enumerated completed status, is returned with the string "completed".
C17_Witness ==
    /\ ReturnedOn("placeholder")
    /\ steps[ret.step.step_id].status = Enum("completed")
    /\ ret.step.status = Str("completed")

\* a normal-path return has written one step record, left as created, and one
\* artifact record per descriptor, and has changed no other step record
NormalWritesOnly ==
    ReturnedOn("normal")' =>
       LET made == ret'.made[1] IN
       /\ \A i \in 1..Len(steps) : i # made => steps'[i] = steps[i]
       /\ steps'[made].status = Enum("created")
       /\ ~steps'[made].is_last
       /\ Cardinality({i \in 1..Len(artifacts') : artifacts'[i].step_id = made}) = Len(ret'.descs)

\* the continuation call that follows a normal-path return on the same task
\* returns the step of that return and writes nothing
ContinuationReturnsIt ==
    \A p \in Procs :
       (ReturnedOn("normal") /\ continuation_list_steps(p, ret.task_id)) =>
          /\ ReturnedOn("resumed")'
          /\ ret'.step.step_id = ret.step.step_id
          /\ store' = store

\* C18: the normal path writes through one create_step and one create_artifact
\* per descriptor and never update_step, so the stored record keeps the status
\* created; a continuation call after a successful normal-path call on the same
\* task returns that normal-path step and creates no placeholder.
C18_NormalPathFrame == [][NormalWritesOnly /\ ContinuationReturnsIt]_vars

\* the normal path's writes alone: one create_step, one create_artifact per
\* descriptor, no update_step
NormalWritesOnlyAlways == [][NormalWritesOnly]_vars

\* the latest call has returned an is_last step of the task
ReturnedLast(task_id) ==
    /\ ret.kind = "Step"
    /\ ret.task_id = task_id
    /\ ret.step.is_last

\* C19: from every reachable state of a task, continuation calls issued again
\* and again, with no collaborator failing, lead to a call that returns a step
\* with is_last = true (or to the bound on the number of steps).
C19_DriveToCompletion ==
    \A t \in UploadTasks :
       [](t \in TaskIds => <>(ReturnedLast(t) \/ Len(steps) >= MaxSteps))

\* C20: get_artifact(task_id, artifact_id) returns bytes only when the artifact
\* record belongs to task_id, never bytes written under another task than the
\* record's.
C20_TaskIsolation ==
    ret.kind = "FileResponse" => artifacts[ret.artifact_id].task_id = ret.task_id

====
